---------------------------- MODULE Spec2Model ----------------------------
(***************************************************************************)
(* Crack-time estimation and scenario simulation (src/config.py,           *)
(* src/simulator.py, src/models.py, src/main.py).                          *)
(*                                                                         *)
(* Numbers.  Python ints are exact; Python floats are IEEE-754 binary64.   *)
(* Both are modelled by the same record [k, neg, m, e] that stands for     *)
(* the value (-1)^neg * m * 2^e, where m is an arbitrary-precision natural *)
(* (a little-endian sequence of 15-bit limbs) kept odd, so that equal      *)
(* values are equal records.  Every float operation computes the exact     *)
(* result and rounds it to 53 significant bits, ties to even, with gradual *)
(* underflow below 2^-1022 and overflow to infinity at 2^1024, as the      *)
(* hardware does.                                                          *)
(***************************************************************************)
EXTENDS Integers, Sequences, FiniteSets, TLC

VARIABLES
    op,          \* the operation applied last ("init" before any)
    args,        \* its arguments
    ret,         \* what it returned or raised
    rng,         \* the state of the random module's shared generator
    SKLEARN_OK,  \* models.SKLEARN_OK, fixed when models.py is imported
    memo         \* an earlier generate_scenarios call, kept to compare with

vars == <<op, args, ret, rng, SKLEARN_OK, memo>>

(***************************************************************************)
(* Arbitrary-precision naturals                                            *)
(***************************************************************************)
LimbBits == 15

Base == 2 ^ LimbBits

RECURSIVE BNorm(_)
BNorm(a) ==
    IF a = <<>> THEN <<>>
    ELSE IF a[Len(a)] = 0 THEN BNorm(SubSeq(a, 1, Len(a) - 1)) ELSE a

BFromNat(n) ==
    IF n = 0 THEN <<>>
    ELSE IF n < Base THEN <<n>>
    ELSE IF n < Base * Base THEN <<n % Base, n \div Base>>
    ELSE <<n % Base, (n \div Base) % Base, n \div (Base * Base)>>

RECURSIVE BCmpFrom(_, _, _)
BCmpFrom(a, b, i) ==
    IF i = 0 THEN 0
    ELSE IF a[i] < b[i] THEN -1
    ELSE IF a[i] > b[i] THEN 1
    ELSE BCmpFrom(a, b, i - 1)

BCmp(a, b) ==
    IF Len(a) < Len(b) THEN -1
    ELSE IF Len(a) > Len(b) THEN 1
    ELSE BCmpFrom(a, b, Len(a))

RECURSIVE BAddFrom(_, _, _, _)
BAddFrom(a, b, i, c) ==
    IF i > Len(a) /\ i > Len(b)
    THEN (IF c = 0 THEN <<>> ELSE <<c>>)
    ELSE LET x == (IF i <= Len(a) THEN a[i] ELSE 0)
                  + (IF i <= Len(b) THEN b[i] ELSE 0) + c
         IN  <<x % Base>> \o BAddFrom(a, b, i + 1, x \div Base)

BAdd(a, b) == BAddFrom(a, b, 1, 0)

RECURSIVE BSubFrom(_, _, _, _)
BSubFrom(a, b, i, c) ==
    IF i > Len(a) THEN <<>>
    ELSE LET x == a[i] - (IF i <= Len(b) THEN b[i] ELSE 0) - c
         IN  IF x < 0 THEN <<x + Base>> \o BSubFrom(a, b, i + 1, 1)
             ELSE <<x>> \o BSubFrom(a, b, i + 1, 0)

\* a - b for a >= b
BSub(a, b) == BNorm(BSubFrom(a, b, 1, 0))

RECURSIVE BMulSmallFrom(_, _, _, _)
BMulSmallFrom(a, k, i, c) ==
    IF i > Len(a) THEN (IF c = 0 THEN <<>> ELSE <<c>>)
    ELSE LET x == a[i] * k + c
         IN  <<x % Base>> \o BMulSmallFrom(a, k, i + 1, x \div Base)

\* a * k for 0 <= k < Base
BMulSmall(a, k) == IF k = 0 THEN <<>> ELSE BMulSmallFrom(a, k, 1, 0)

RECURSIVE Zeros(_)
Zeros(n) == IF n = 0 THEN <<>> ELSE <<0>> \o Zeros(n - 1)

RECURSIVE BMulFrom(_, _, _)
BMulFrom(a, b, i) ==
    IF i > Len(b) THEN <<>>
    ELSE LET p == BMulSmall(a, b[i])
         IN  BAdd(IF p = <<>> THEN <<>> ELSE Zeros(i - 1) \o p,
                  BMulFrom(a, b, i + 1))

BMul(a, b) == IF a = <<>> \/ b = <<>> THEN <<>> ELSE BMulFrom(a, b, 1)

RECURSIVE NatBitLen(_)
NatBitLen(n) == IF n = 0 THEN 0 ELSE 1 + NatBitLen(n \div 2)

BBitLen(a) ==
    IF a = <<>> THEN 0 ELSE LimbBits * (Len(a) - 1) + NatBitLen(a[Len(a)])

\* a * 2^k
BShl(a, k) ==
    IF a = <<>> THEN <<>>
    ELSE Zeros(k \div LimbBits) \o BMulSmall(a, 2 ^ (k % LimbBits))

RECURSIVE BShrBitsFrom(_, _, _)
BShrBitsFrom(a, r, i) ==
    IF i > Len(a) THEN <<>>
    ELSE <<(a[i] \div (2 ^ r))
           + (IF i < Len(a) THEN (a[i + 1] % (2 ^ r)) * (2 ^ (LimbBits - r))
              ELSE 0)>>
         \o BShrBitsFrom(a, r, i + 1)

\* floor(a / 2^k)
BShr(a, k) ==
    LET q == k \div LimbBits
    IN  IF q >= Len(a) THEN <<>>
        ELSE BNorm(BShrBitsFrom(SubSeq(a, q + 1, Len(a)), k % LimbBits, 1))

\* a mod 2^k
BLow(a, k) == BSub(a, BShl(BShr(a, k), k))

BIsOdd(a) == a # <<>> /\ a[1] % 2 = 1

RECURSIVE DigitSearch(_, _, _, _)
\* the largest d in lo..hi with b * d <= r (b * lo <= r is given)
DigitSearch(r, b, lo, hi) ==
    IF lo = hi THEN lo
    ELSE LET mid == (lo + hi + 1) \div 2
         IN  IF BCmp(BMulSmall(b, mid), r) <= 0
             THEN DigitSearch(r, b, mid, hi)
             ELSE DigitSearch(r, b, lo, mid - 1)

RECURSIVE BDivModFrom(_, _, _, _, _)
RECURSIVE BDivModDigit(_, _, _, _, _)
RECURSIVE BDivModTake(_, _, _, _, _, _)
\* long division, limb i of a next: q the quotient limbs so far, r the rest
BDivModFrom(a, b, i, q, r) ==
    IF i = 0 THEN [q |-> BNorm(q), r |-> r]
    ELSE BDivModDigit(a, b, i, q, BNorm(<<a[i]>> \o r))

\* the step for limb i, once the running remainder r1 is known
BDivModDigit(a, b, i, q, r1) ==
    BDivModTake(a, b, i, q, r1, DigitSearch(r1, b, 0, Base - 1))

\* the step for limb i, once its quotient digit d is known
BDivModTake(a, b, i, q, r1, d) ==
    BDivModFrom(a, b, i - 1, <<d>> \o q, BSub(r1, BMulSmall(b, d)))

\* quotient and remainder of a by b, b # 0
BDivMod(a, b) == BDivModFrom(a, b, Len(a), <<>>, <<>>)

RECURSIVE BPow10(_)
BPow10(p) == IF p = 0 THEN <<1>> ELSE BMulSmall(BPow10(p - 1), 10)

(***************************************************************************)
(* Numbers: Python ints (exact) and floats (binary64)                      *)
(***************************************************************************)
MantBits == 53

MinExp == -1074

MaxTop == 1024

Max(a, b) == IF a >= b THEN a ELSE b

Min(a, b) == IF a <= b THEN a ELSE b

Zero == [k |-> "fin", neg |-> FALSE, m |-> <<>>, e |-> 0]

Inf(neg) == [k |-> "inf", neg |-> neg, m |-> <<>>, e |-> 0]

IsZero(x) == x.k = "fin" /\ x.m = <<>>

IsInf(x) == x.k = "inf"

RECURSIVE NatTrailingZeros(_)
NatTrailingZeros(n) == IF n % 2 = 1 THEN 0 ELSE 1 + NatTrailingZeros(n \div 2)

RECURSIVE BTrailingZerosFrom(_, _)
BTrailingZerosFrom(a, i) ==
    IF a[i] = 0 THEN LimbBits + BTrailingZerosFrom(a, i + 1)
    ELSE NatTrailingZeros(a[i])

\* the number of trailing zero bits of a # 0
BTrailingZeros(a) == BTrailingZerosFrom(a, 1)

\* the exact value (-1)^neg * n * 2^e, with the mantissa made odd
Shifted(neg, n, e, tz) ==
    [k |-> "fin", neg |-> neg, m |-> BShr(n, tz), e |-> e + tz]

Exact(neg, n, e) ==
    IF n = <<>> THEN Zero ELSE Shifted(neg, n, e, BTrailingZeros(n))

\* the position just above the leading bit: 2^(Top-1) <= |x| < 2^Top
Top(x) == BBitLen(x.m) + x.e

\* n * 2^e (plus a little, when sticky) rounded to the nearest double, ties to
\* even; a value of 2^1024 or more becomes an infinity
\* q * 2^e moved one place up when the dropped part is above the half
\* (c > 0), or is the half (c = 0) and q is odd or more was lost (sticky)
RoundedUp(neg, q, e, c, sticky) ==
    Exact(neg,
          IF c > 0 \/ (c = 0 /\ (sticky \/ BIsOdd(q))) THEN BAdd(q, <<1>>) ELSE q,
          e)

\* n * 2^e rounded at the bit drop of n, len the bit length of n
RoundedAt(neg, n, e, sticky, len, drop) ==
    IF n = <<>> \/ drop > len THEN Zero
    ELSE IF drop <= 0 THEN Exact(neg, n, e)
    ELSE RoundedUp(neg, BShr(n, drop), e + drop,
                   BCmp(BLow(n, drop), BShl(<<1>>, drop - 1)), sticky)

RoundedIn(neg, n, e, sticky, len) ==
    RoundedAt(neg, n, e, sticky, len, Max(len - MantBits, MinExp - e))

Clamped(r) == IF Top(r) > MaxTop THEN Inf(r.neg) ELSE r

RoundToDouble(neg, n, e, sticky) ==
    Clamped(RoundedIn(neg, n, e, sticky, BBitLen(n)))

\* the quotient dm.q * 2^e, dm.r the remainder, rounded to the nearest double
RoundDivided(neg, dm, e) == RoundToDouble(neg, dm.q, e, dm.r # <<>>)

\* the same, with the numerator moved s bits up to get enough quotient bits
RoundQuotientAt(neg, n, d, e, s) ==
    RoundDivided(neg, BDivMod(BShl(n, s), d), e - s)

\* (n / d) * 2^e rounded to the nearest double, d # 0
RoundQuotient(neg, n, d, e) ==
    IF n = <<>> THEN Zero
    ELSE RoundQuotientAt(neg, n, d, e,
                         Max(0, MantBits + 2 + BBitLen(d) - BBitLen(n)))

\* Python int n (a TLA+ integer)
IntNum(n) == IF n < 0 THEN Exact(TRUE, BFromNat(-n), 0) ELSE Exact(FALSE, BFromNat(n), 0)

\* the int 2 ** b
Pow2(b) == [k |-> "fin", neg |-> FALSE, m |-> <<1>>, e |-> b]

\* n * 2^e for a small odd n
Dyadic(n, e) == [k |-> "fin", neg |-> FALSE, m |-> <<n>>, e |-> e]

\* the float literal n e-p, for naturals n and p
Decimal(n, p) == RoundQuotient(FALSE, BFromNat(n), BPow10(p), 0)

\* the float literal n e+p
DecimalUp(n, p) == RoundToDouble(FALSE, BMul(BFromNat(n), BPow10(p)), 0, FALSE)

Neg(x) == IF IsZero(x) THEN x ELSE [x EXCEPT !.neg = ~x.neg]

\* float(i) for an int i raises OverflowError when i does not fit
IntTooLarge(i) == IsInf(RoundToDouble(i.neg, i.m, i.e, FALSE))

ToFloat(i) == RoundToDouble(i.neg, i.m, i.e, FALSE)

\* x * y
FMul(x, y) ==
    IF IsInf(x) \/ IsInf(y) THEN Inf(x.neg # y.neg)
    ELSE IF IsZero(x) \/ IsZero(y) THEN Zero
    ELSE RoundToDouble(x.neg # y.neg, BMul(x.m, y.m), x.e + y.e, FALSE)

\* x / y for y # 0
FDiv(x, y) ==
    IF IsInf(x) THEN Inf(x.neg # y.neg)
    ELSE IF IsInf(y) \/ IsZero(x) THEN Zero
    ELSE RoundQuotient(x.neg # y.neg, x.m, y.m, x.e - y.e)

\* x + y for finite x and y of one sign
\* the exact sum of the magnitudes of x and y, as a multiple of 2^e0
SumAt(x, y, e0) == BAdd(BShl(x.m, x.e - e0), BShl(y.m, y.e - e0))

\* hi + lo for finite non-zero doubles with |hi| >= |lo|
FAddOrdered(hi, lo) ==
    IF Top(lo) < Top(hi) - MantBits - 1 /\ BBitLen(hi.m) <= MantBits
    THEN hi   \* lo is below a quarter of hi's last place
    ELSE RoundToDouble(hi.neg, SumAt(hi, lo, Min(hi.e, lo.e)), Min(hi.e, lo.e),
                       FALSE)

FAdd(x, y) ==
    IF IsInf(x) THEN x
    ELSE IF IsInf(y) THEN y
    ELSE IF IsZero(x) THEN y
    ELSE IF IsZero(y) THEN x
    ELSE IF Top(x) >= Top(y) THEN FAddOrdered(x, y)
    ELSE FAddOrdered(y, x)

\* the order of the magnitudes of finite non-zero x and y: -1, 0 or 1
MagCmpAt(x, y, e0) == BCmp(BShl(x.m, x.e - e0), BShl(y.m, y.e - e0))

MagCmp(x, y) ==
    IF Top(x) < Top(y) THEN -1
    ELSE IF Top(x) > Top(y) THEN 1
    ELSE MagCmpAt(x, y, Min(x.e, y.e))

Sign(x) == IF IsZero(x) THEN 0 ELSE IF x.neg THEN -1 ELSE 1

\* the order of x and y, sx and sy being their signs
CmpSigned(x, y, sx, sy) ==
    IF sx # sy THEN (IF sx < sy THEN -1 ELSE 1)
    ELSE IF sx = 0 THEN 0
    ELSE IF IsInf(x) \/ IsInf(y)
         THEN (IF IsInf(x) /\ IsInf(y) THEN 0
               ELSE IF IsInf(x) THEN sx ELSE -sx)
    ELSE sx * MagCmp(x, y)

\* the exact order of x and y (ints or floats): -1, 0 or 1
Cmp(x, y) == CmpSigned(x, y, Sign(x), Sign(y))

Lt(x, y) == Cmp(x, y) < 0

Le(x, y) == Cmp(x, y) <= 0

\* the neighbour of x, mm * 2^e being the 53-bit form of x
Nudge1At(x, d, mm, e) ==
    IF d > 0 THEN RoundToDouble(x.neg, BAdd(mm, <<1>>), e, FALSE)
    ELSE IF x.m = <<1>> THEN Exact(x.neg, BSub(BShl(mm, 1), <<1>>), e - 1)
    ELSE Exact(x.neg, BSub(mm, <<1>>), e)

\* the double next to the non-zero double x, away from zero for d = 1 and
\* towards zero for d = -1
Nudge1(x, d) ==
    Nudge1At(x, d, BShl(x.m, MantBits - BBitLen(x.m)),
             x.e - (MantBits - BBitLen(x.m)))

RECURSIVE Nudge(_, _)
\* the double d places from the normal double x (d < 0: towards zero)
Nudge(x, d) ==
    IF IsZero(x) \/ IsInf(x) \/ d = 0 THEN x
    ELSE IF d > 0 THEN Nudge(Nudge1(x, 1), d - 1)
    ELSE Nudge(Nudge1(x, -1), d + 1)

NearestUp(q, c) == IF c > 0 \/ (c = 0 /\ BIsOdd(q)) THEN BAdd(q, <<1>>) ELSE q

\* n * 2^e rounded to the nearest integer, ties to even
Nearest(n, e) ==
    IF e >= 0 THEN BShl(n, e)
    ELSE IF -e > BBitLen(n) THEN <<>>
    ELSE NearestUp(BShr(n, -e), BCmp(BLow(n, -e), BShl(<<1>>, -e - 1)))

\* format(x, ".2f") for x >= 0: the hundredths of x rounded to the nearest
\* integer, ties to even
Hundredths(x) == Nearest(BMulSmall(x.m, 100), x.e)

(***************************************************************************)
(* src/config.py                                                           *)
(***************************************************************************)
\* the float literals 0.5, 1.0, 1.5 and 2.0, which binary64 holds exactly
Half == Dyadic(1, -1)

One == Dyadic(1, 0)

OnePointFive == Dyadic(3, -1)

Two == Dyadic(1, 1)

AlgorithmSpec(name, family, key_bits, block_bits, analytical_reduction) ==
    [name |-> name, family |-> family, key_bits |-> key_bits,
     block_bits |-> block_bits, analytical_reduction |-> analytical_reduction]

ALGORITHMS ==
    << AlgorithmSpec("AES-128", "symmetric", 128, 128, One),
       AlgorithmSpec("AES-192", "symmetric", 192, 128, One),
       AlgorithmSpec("AES-256", "symmetric", 256, 128, One),
       AlgorithmSpec("3DES-168", "symmetric", 168, 64, One),
       AlgorithmSpec("DES-56", "symmetric", 56, 64, One),
       AlgorithmSpec("RSA-1024", "asymmetric", 80, "None", One),
       AlgorithmSpec("RSA-2048", "asymmetric", 112, "None", One),
       AlgorithmSpec("RSA-3072", "asymmetric", 128, "None", One) >>

EFFECTIVE_OVERRIDES ==
    ("3DES-168" :> ("effective_bits" :> 112)) @@
    ("DES-56" :> ("effective_bits" :> 56))

\* the keys in insertion order, as list(d.keys()) gives them
HARDWARE_KEYS == <<"CPU", "GPU", "CLUSTER">>

HARDWARE_GUESS_RATES ==
    ("CPU" :> Pow2(28)) @@ ("GPU" :> Pow2(34)) @@ ("CLUSTER" :> Pow2(40))

THREAT_KEYS == <<"Low", "Medium", "High">>

THREAT_LEVEL_MULTIPLIER ==
    ("Low" :> Half) @@ ("Medium" :> One) @@ ("High" :> Two)

ANALYTICAL_SHORTCUT ==
    ("DES-56" :> Two) @@ ("3DES-168" :> OnePointFive)

(***************************************************************************)
(* Results: a returned value or a raised exception                         *)
(***************************************************************************)
Return(v) == [st |-> "return", val |-> v]

Raise(exc) == [st |-> "raise", exc |-> exc]

Returned(r) == r.st = "return"

(***************************************************************************)
(* src/simulator.py                                                        *)
(***************************************************************************)
\* a wrong variant with a year of 365 days
SECONDS_IN_365 == ("minute" :> 60) @@ ("hour" :> 3600) @@ ("day" :> 86400)
                  @@ ("year" :> 31536000)

SECONDS_IN == ("minute" :> 60) @@ ("hour" :> 3600) @@ ("day" :> 86400)
              @@ ("year" :> 31557600)

Scenario(algorithm, hardware, threat, attack_type) ==
    [algorithm |-> algorithm, hardware |-> hardware, threat |-> threat,
     attack_type |-> attack_type]

\* a wrong variant that overlooks the overrides
effective_bits_nominal(alg_name, nominal_bits) == nominal_bits

effective_bits(alg_name, nominal_bits) ==
    IF alg_name \in DOMAIN EFFECTIVE_OVERRIDES
       /\ "effective_bits" \in DOMAIN EFFECTIVE_OVERRIDES[alg_name]
    THEN EFFECTIVE_OVERRIDES[alg_name]["effective_bits"]
    ELSE nominal_bits

\* a wrong variant that leaves the threat multiplier out
guesses_per_second_flat(hardware, threat) ==
    IF hardware \notin DOMAIN HARDWARE_GUESS_RATES THEN Raise("KeyError")
    ELSE IF threat \notin DOMAIN THREAT_LEVEL_MULTIPLIER THEN Raise("KeyError")
    ELSE Return(ToFloat(HARDWARE_GUESS_RATES[hardware]))

guesses_per_second(hardware, threat) ==
    IF hardware \notin DOMAIN HARDWARE_GUESS_RATES THEN Raise("KeyError")
    ELSE IF threat \notin DOMAIN THREAT_LEVEL_MULTIPLIER THEN Raise("KeyError")
    ELSE Return(FMul(ToFloat(HARDWARE_GUESS_RATES[hardware]),
                     THREAT_LEVEL_MULTIPLIER[threat]))

\* a wrong variant that knows no shortcut
analytical_factor_brute(alg_name, attack_type) == One

analytical_factor(alg_name, attack_type) ==
    IF attack_type = "analytical"
    THEN (IF alg_name \in DOMAIN ANALYTICAL_SHORTCUT
          THEN ANALYTICAL_SHORTCUT[alg_name] ELSE One)
    ELSE One

\* a wrong variant that multiplies by the guess rate
median_bruteforce_time_seconds_times(bits, gps, factor) ==
    IF IntTooLarge(Pow2(bits)) THEN Raise("OverflowError")
    ELSE IF IsZero(factor) \/ IsZero(gps) THEN Raise("ZeroDivisionError")
    ELSE Return(FMul(FMul(Half, FDiv(ToFloat(Pow2(bits)), factor)), gps))

\* bits is a natural, gps and factor are floats
median_bruteforce_time_seconds(bits, gps, factor) ==
    IF IntTooLarge(Pow2(bits)) THEN Raise("OverflowError")
    ELSE IF IsZero(factor) \/ IsZero(gps) THEN Raise("ZeroDivisionError")
    ELSE LET eff_space == FDiv(ToFloat(Pow2(bits)), factor)
         IN  Return(FDiv(FMul(Half, eff_space), gps))

\* the rendering "<value with two decimals> <unit>" of a finite s
Human(value, unit) == [hundredths |-> Hundredths(value), unit |-> unit]

humanize_seconds(s) ==
    IF Lt(s, IntNum(1)) THEN Human(FMul(s, IntNum(1000)), "ms")
    ELSE IF Lt(s, IntNum(60)) THEN Human(s, "s")
    ELSE IF Lt(s, IntNum(3600)) THEN Human(FDiv(s, IntNum(60)), "min")
    ELSE IF Lt(s, IntNum(86400)) THEN Human(FDiv(s, IntNum(3600)), "h")
    ELSE IF Lt(s, IntNum(SECONDS_IN["year"]))
         THEN Human(FDiv(s, IntNum(86400)), "days")
    ELSE Human(FDiv(s, IntNum(SECONDS_IN["year"])), "years")

\* next(a for a in ALGORITHMS if a.name == name): the positions that match
Matching(name) == {i \in 1..Len(ALGORITHMS) : ALGORITHMS[i].name = name}

First(S) == CHOOSE i \in S : \A j \in S : i <= j

\* the returned dict, t_sec being the median time computed
simulate_one_row(scn, spec, bits, gps, af, t_sec) ==
    [algorithm |-> spec.name,
     family |-> spec.family,
     key_bits_nominal |-> spec.key_bits,
     key_bits_effective |-> bits,
     hardware |-> scn.hardware,
     threat |-> scn.threat,
     attack_type |-> scn.attack_type,
     guesses_per_second |-> gps,
     analytical_factor |-> af,
     median_time_seconds |-> t_sec,
     median_time_human |-> humanize_seconds(t_sec)]

\* the lines after af is computed; t is the outcome of the median computation
simulate_one_time(scn, spec, bits, gps, af, t) ==
    IF ~Returned(t) THEN t
    ELSE Return(simulate_one_row(scn, spec, bits, gps, af, t.val))

\* the lines after bits is computed; g is the outcome of guesses_per_second
simulate_one_rate(scn, spec, bits, g, af) ==
    IF ~Returned(g) THEN g
    ELSE simulate_one_time(scn, spec, bits, g.val, af,
                           median_bruteforce_time_seconds(bits, g.val, af))

\* the lines after spec is found
simulate_one_spec(scn, spec) ==
    simulate_one_rate(scn, spec, effective_bits(spec.name, spec.key_bits),
                      guesses_per_second(scn.hardware, scn.threat),
                      analytical_factor(spec.name, scn.attack_type))

simulate_one(scn) ==
    IF Matching(scn.algorithm) = {} THEN Raise("StopIteration")
    ELSE simulate_one_spec(scn, ALGORITHMS[First(Matching(scn.algorithm))])

(***************************************************************************)
(* src/models.py                                                           *)
(***************************************************************************)
RiskBucket(name, lo, hi) == [name |-> name, lo |-> lo, hi |-> hi]

RISK_BUCKETS ==
    << RiskBucket("Weak", Neg(DecimalUp(1, 9)), IntNum(86400)),
       RiskBucket("Borderline", IntNum(86400), IntNum(31557600)),
       RiskBucket("Strong", IntNum(31557600), DecimalUp(1, 30)) >>

RECURSIVE bucketizeFromClosed(_, _)
\* a wrong variant whose ranges include their upper ends
bucketizeFromClosed(seconds, buckets) ==
    IF buckets = <<>> THEN "Strong"
    ELSE IF Le(Head(buckets).lo, seconds) /\ Le(seconds, Head(buckets).hi)
         THEN Head(buckets).name
    ELSE bucketizeFromClosed(seconds, Tail(buckets))

RECURSIVE bucketizeFrom(_, _)
\* the loop over the buckets still to try
bucketizeFrom(seconds, buckets) ==
    IF buckets = <<>> THEN "Strong"
    ELSE IF Le(Head(buckets).lo, seconds) /\ Lt(seconds, Head(buckets).hi)
         THEN Head(buckets).name
    ELSE bucketizeFrom(seconds, Tail(buckets))

bucketize(seconds) == bucketizeFrom(seconds, RISK_BUCKETS)

\* math.log10(x) for x > 0, kept as the number it is the logarithm of
Log10(x) == [log10 |-> x]

\* max(a, b) returns a unless b is greater
PyMax(a, b) == IF Lt(a, b) THEN b ELSE a

\* the return of the rule-based branch, seconds being what it computed
predict_return(seconds) ==
    Return([logt |-> Log10(FAdd(seconds, Decimal(1, 9))),
            risk |-> bucketize(seconds)])

\* the division of the rule-based branch, den being gps * max(1.0, af)
predict_divide(key_bits_effective, den) ==
    IF IsZero(den) THEN Raise("ZeroDivisionError")
    ELSE predict_return(FDiv(FMul(Half, ToFloat(Pow2(key_bits_effective))),
                             den))

\* the rule-based branch
predict_rule(key_bits_effective, gps, af) ==
    IF IntTooLarge(Pow2(key_bits_effective)) THEN Raise("OverflowError")
    ELSE predict_divide(key_bits_effective, FMul(gps, PyMax(One, af)))

\* the names a fitted classifier can answer with
BucketNames == {"Weak", "Borderline", "Strong"}

\* the outcomes predict can have: one, on the rule-based branch
predict(reg, cls, key_bits_effective, gps, af, sklearn_ok) ==
    IF reg = "None" \/ cls = "None" \/ ~sklearn_ok
    THEN {predict_rule(key_bits_effective, gps, af)}
    ELSE \* whatever the fitted forests answer
         {Return([logt |-> Log10(t), risk |-> b]) :
              t \in {IntNum(1), IntNum(86400)}, b \in BucketNames}

(***************************************************************************)
(* The random module's shared generator, and generate_scenarios            *)
(***************************************************************************)
RngMod == 16

RngStates == 0..(RngMod - 1)

\* random.seed(seed): the state depends on the seed alone
SeedState(seed) == (seed * 7 + 3) % RngMod

\* the state after one draw
Step(g) == (g * 5 + 1) % RngMod

\* random.choice(seq) in state g
Choice(seq, g) == seq[((g \div 2) % Len(seq)) + 1]

Names(i) == ALGORITHMS[i].name

RECURSIVE GenLoop(_, _, _, _)
GenLoop(k, g, lists, out) ==
    IF k <= 0 THEN [out |-> out, rng |-> g]
    ELSE LET g1 == Step(g)
             g2 == Step(g1)
             g3 == Step(g2)
             scn == Scenario(Choice(lists.algs, g), Choice(lists.hardware, g1),
                             Choice(lists.threats, g2), Choice(lists.attacks, g3))
         IN  GenLoop(k - 1, Step(g3), lists, Append(out, scn))

\* a wrong variant that does not seed
ReseedNot(g, seed) == g

\* the state random.seed(seed) leaves when generate_scenarios starts in state g
Reseed(g, seed) == SeedState(seed)

\* the returned list and the generator state left behind, from state g
generate_scenarios(n, seed, g) ==
    GenLoop(n, Reseed(g, seed),
            [algs |-> [i \in 1..Len(ALGORITHMS) |-> Names(i)],
             hardware |-> HARDWARE_KEYS,
             threats |-> THREAT_KEYS,
             attacks |-> <<"brute", "analytical">>],
            <<>>)

(***************************************************************************)
(* src/main.py: cmd_recommend                                              *)
(***************************************************************************)
\* 10 ** logt: the antilogarithm, up to d places of rounding in log10 and pow
Pow10(logt, d) == Nudge(logt.log10, d)

\* the row appended for a
CandidateRow(a, bits, seconds, risk) ==
    [algorithm |-> a.name,
     family |-> a.family,
     effective_bits |-> bits,
     estimated_time |-> seconds,
     estimated_time_human |-> humanize_seconds(seconds),
     risk |-> risk]

\* the lines after predict, p being its outcome
CandidatePredicted(a, bits, d, p) ==
    IF ~Returned(p) THEN p
    ELSE Return(CandidateRow(a, bits, Pow10(p.val.logt, d), p.val.risk))

\* the lines after bits is computed
CandidateBits(a, a_args, d, sklearn_ok, bits) ==
    CandidatePredicted(
        a, bits, d,
        CHOOSE r \in predict("None", "None", bits,
                             FMul(ToFloat(HARDWARE_GUESS_RATES[a_args.max_compute]),
                                  IF a_args.threat = "High" THEN Two
                                  ELSE IF a_args.threat = "Low" THEN Half
                                  ELSE One),
                             IF a_args.attack = "brute" THEN One ELSE OnePointFive,
                             sklearn_ok) : TRUE)

\* one pass of the loop over ALGORITHMS: the candidate row of a, or a raise
Candidate(a, a_args, d, sklearn_ok) ==
    CandidateBits(a, a_args, d, sklearn_ok,
                  IF a.name \in DOMAIN EFFECTIVE_OVERRIDES
                     /\ "effective_bits" \in DOMAIN EFFECTIVE_OVERRIDES[a.name]
                  THEN EFFECTIVE_OVERRIDES[a.name]["effective_bits"]
                  ELSE a.key_bits)

RECURSIVE DescOrders(_, _)
\* the orders of the positions S of rows by estimated_time, largest first;
\* rows of equal time may come out either way
DescOrders(rows, S) ==
    IF S = {} THEN {<<>>}
    ELSE UNION {{<<i>> \o t : t \in DescOrders(rows, S \ {i})} :
                i \in {j \in S : \A k \in S :
                          Le(rows[k].estimated_time, rows[j].estimated_time)}}

RECURSIVE Filter(_, _)
Filter(t, thr) ==
    IF t = <<>> THEN <<>>
    ELSE IF Le(thr, Head(t).estimated_time)
         THEN <<Head(t)>> \o Filter(Tail(t), thr)
    ELSE Filter(Tail(t), thr)

RECURSIVE Candidates(_, _, _, _)
\* the loop over ALGORITHMS from position i on: the results of its passes
Candidates(i, a_args, d, sklearn_ok) ==
    IF i > Len(ALGORITHMS) THEN <<>>
    ELSE <<Candidate(ALGORITHMS[i], a_args, d, sklearn_ok)>>
         \o Candidates(i + 1, a_args, d, sklearn_ok)

RECURSIVE Values(_)
Values(made) ==
    IF made = <<>> THEN <<>> ELSE <<Head(made).val>> \o Values(Tail(made))

RECURSIVE Pick(_, _)
\* the rows at the positions o, in that order
Pick(rows, o) ==
    IF o = <<>> THEN <<>> ELSE <<rows[Head(o)]>> \o Pick(rows, Tail(o))

\* what is printed: df the sorted frame, ok its rows that meet the threshold
Shown(rows, df, ok) ==
    [rows |-> rows,
     header |-> IF ok # <<>>
                THEN "[i] Recommendation (meeting threshold):"
                ELSE "[!] No algorithm meets the threshold. Showing strongest anyway:",
     table |-> IF ok # <<>> THEN SubSeq(ok, 1, Min(10, Len(ok)))
               ELSE SubSeq(df, 1, Min(10, Len(df)))]

Sorted(rows, df, thr) == Return(Shown(rows, df, Filter(df, thr)))

\* the positions of the passes that raised
Raised(made) == {i \in 1..Len(made) : ~Returned(made[i])}

\* the lines after the loop, made being the outcomes of its passes
Recommend(made, rows, thr) ==
    IF Raised(made) # {} THEN {made[First(Raised(made))]}
    ELSE {Sorted(rows, Pick(rows, o), thr) : o \in DescOrders(rows, 1..Len(rows))}

Looped(made, thr) == Recommend(made, Values(made), thr)

\* the outcomes of cmd_recommend: the candidate rows it builds and what it
\* prints, or the exception that ends it
cmd_recommend(a_args, d, sklearn_ok) ==
    Looped(Candidates(1, a_args, d, sklearn_ok),
           FMul(a_args.max_time_days, IntNum(86400)))

(***************************************************************************)
(* Inputs                                                                  *)
(***************************************************************************)
MaxUlps == 1

MaxSmallBits == 2

MaxCount == 2

MaxSeed == 1

MaxDrawn == 1

DefaultSeed == 42

Range(f) == {f[x] : x \in DOMAIN f}

AlgNames == {ALGORITHMS[i].name : i \in 1..Len(ALGORITHMS)}

AlgorithmInputs == AlgNames \cup {"ChaCha20"}

HardwareInputs == Range(HARDWARE_KEYS) \cup {"FPGA"}

ThreatInputs == Range(THREAT_KEYS) \cup {"Extreme"}

AttackInputs == {"brute", "analytical", "quantum"}

\* the places where a unit or a bucket changes, and the doubles around them
Boundaries ==
    {IntNum(1), IntNum(60), IntNum(3600), IntNum(86400), IntNum(31557600),
     DecimalUp(1, 30)}

SecondsInputs ==
    {Nudge(b, d) : b \in Boundaries, d \in (-MaxUlps)..MaxUlps}
    \cup {Zero, Decimal(5, 1), IntNum(45), IntNum(7200), Decimal(86399999, 3),
          IntNum(90000), IntNum(31557599), IntNum(70000000), DecimalUp(2, 30),
          Pow2(1023), Neg(IntNum(1)), Neg(DecimalUp(2, 9))}

EffectiveBits ==
    {effective_bits(ALGORITHMS[i].name, ALGORITHMS[i].key_bits) :
         i \in 1..Len(ALGORITHMS)}

BitsInputs == (0..MaxSmallBits) \cup EffectiveBits \cup {18, 1023, 1024}

CatalogGps ==
    {guesses_per_second(h, t).val : h \in Range(HARDWARE_KEYS),
                                    t \in Range(THREAT_KEYS)}

\* 0x1.02e85c0898b71p+0, about 1.0113580246913580
OddGps == Exact(FALSE, <<2929, 275, 14871, 129>>, -52)

GpsInputs == CatalogGps \cup {One, OddGps, Pow2(1023)}

FactorInputs ==
    {One, OnePointFive, Two, Pow2(1023)}
    \cup {Nudge(Two, -d) : d \in 1..(MaxUlps + 1)}

DaysInputs == {Zero, IntNum(365), DecimalUp(1, 30)}

CountInputs == (-1)..MaxCount

SeedInputs == (0..MaxSeed) \cup {DefaultSeed}

(***************************************************************************)
(* The operations as steps                                                 *)
(***************************************************************************)
Called(name, a, r) ==
    /\ op' = name
    /\ args' = a
    /\ ret' = r

\* no call is in progress
Idle == op = "init"

\* the caller is done with the result of its call
Finish ==
    /\ ~Idle
    /\ op' = "init"
    /\ args' = <<>>
    /\ ret' = <<>>
    /\ UNCHANGED <<rng, SKLEARN_OK, memo>>

SimulateOne ==
    /\ Idle
    /\ \E scn \in [algorithm : AlgorithmInputs, hardware : HardwareInputs,
                threat : ThreatInputs, attack_type : AttackInputs] :
        /\ Called("simulate_one", scn, simulate_one(scn))
        /\ UNCHANGED <<rng, SKLEARN_OK, memo>>

Bucketize ==
    /\ Idle
    /\ \E s \in SecondsInputs :
        /\ Called("bucketize", [seconds |-> s],
                  Return([name |-> bucketize(s)]))
        /\ UNCHANGED <<rng, SKLEARN_OK, memo>>

HumanizeSeconds ==
    /\ Idle
    /\ \E s \in {x \in SecondsInputs : ~x.neg} :
        /\ Called("humanize_seconds", [s |-> s], Return(humanize_seconds(s)))
        /\ UNCHANGED <<rng, SKLEARN_OK, memo>>

MedianTime ==
    /\ Idle
    /\ \E bits \in BitsInputs, gps \in GpsInputs, factor \in FactorInputs :
        /\ Called("median_bruteforce_time_seconds",
                  [bits |-> bits, gps |-> gps, factor |-> factor],
                  median_bruteforce_time_seconds(bits, gps, factor))
        /\ UNCHANGED <<rng, SKLEARN_OK, memo>>

Predict ==
    /\ Idle
    /\ \E reg \in {"None", "RandomForestRegressor"},
       cls \in {"None", "RandomForestClassifier"},
       bits \in EffectiveBits \cup {18, 1024},
       gps \in GpsInputs \cup {Zero},
       af \in {Half, One, OnePointFive, Two} :
        \E r \in predict(reg, cls, bits, gps, af, SKLEARN_OK) :
            /\ Called("predict",
                      [reg |-> reg, cls |-> cls, key_bits_effective |-> bits,
                       gps |-> gps, af |-> af], r)
            /\ UNCHANGED <<rng, SKLEARN_OK, memo>>

CmdRecommend ==
    /\ Idle
    /\ \E days \in DaysInputs, hw \in Range(HARDWARE_KEYS),
       threat \in Range(THREAT_KEYS), attack \in {"brute", "analytical"},
       d \in (-MaxUlps)..MaxUlps :
        LET a == [max_time_days |-> days, max_compute |-> hw,
                  threat |-> threat, attack |-> attack]
        IN  \E r \in cmd_recommend(a, d, SKLEARN_OK) :
                /\ Called("cmd_recommend", a, r)
                /\ UNCHANGED <<rng, SKLEARN_OK, memo>>

GenerateScenarios ==
    \E n \in CountInputs, seed \in SeedInputs :
        LET r == generate_scenarios(n, seed, rng)
        IN  /\ Called("generate_scenarios", [n |-> n, seed |-> seed],
                      Return(r.out))
            /\ rng' = r.rng
            /\ UNCHANGED <<SKLEARN_OK, memo>>

\* memo before any call is kept; drawn counts the draws others made since
NoCall == [args |-> <<>>, ret |-> <<>>, drawn |-> 0]

\* any other user of the shared generator draws from it
AmbientRandom ==
    /\ Called("random", <<>>, <<>>)
    /\ rng' = Step(rng)
    /\ memo' = IF memo = NoCall THEN memo
               ELSE [memo EXCEPT !.drawn = Min(@ + 1, MaxDrawn)]
    /\ UNCHANGED SKLEARN_OK

\* keep the call just made, to compare later calls with it
Remember ==
    /\ op = "generate_scenarios"
    /\ memo' = [args |-> args, ret |-> ret, drawn |-> 0]
    /\ UNCHANGED <<op, args, ret, rng, SKLEARN_OK>>

Init ==
    /\ op = "init"
    /\ args = <<>>
    /\ ret = <<>>
    /\ rng = 0
    /\ SKLEARN_OK \in BOOLEAN
    /\ memo = NoCall

Next ==
    \/ SimulateOne
    \/ Bucketize
    \/ HumanizeSeconds
    \/ MedianTime
    \/ Predict
    \/ CmdRecommend
    \/ Finish

Spec == Init /\ [][Next]_vars

\* the generator starts in whatever state the interpreter seeded it with
InitGen ==
    /\ op = "init"
    /\ args = <<>>
    /\ ret = <<>>
    /\ rng \in RngStates
    /\ SKLEARN_OK \in BOOLEAN
    /\ memo = NoCall

NextGen ==
    \/ GenerateScenarios
    \/ AmbientRandom
    \/ Remember

SpecGen == InitGen /\ [][NextGen]_vars

(***************************************************************************)
(* Properties                                                              *)
(***************************************************************************)
ValidScenario(scn) ==
    /\ scn.algorithm \in AlgNames
    /\ scn.hardware \in Range(HARDWARE_KEYS)
    /\ scn.threat \in Range(THREAT_KEYS)
    /\ scn.attack_type \in {"brute", "analytical"}

SpecOf(name) == ALGORITHMS[First(Matching(name))]

Day == IntNum(86400)

Year == IntNum(31557600)

\* the row of a simulate_one call on recognised values: what C1 says of it
RowAsSpecified(scn, row) ==
    /\ row.key_bits_effective =
           (IF scn.algorithm \in DOMAIN EFFECTIVE_OVERRIDES
            THEN EFFECTIVE_OVERRIDES[scn.algorithm]["effective_bits"]
            ELSE SpecOf(scn.algorithm).key_bits)
    /\ row.guesses_per_second =
           FMul(ToFloat(HARDWARE_GUESS_RATES[scn.hardware]),
                THREAT_LEVEL_MULTIPLIER[scn.threat])
    /\ row.analytical_factor =
           (IF scn.attack_type = "analytical"
               /\ scn.algorithm \in DOMAIN ANALYTICAL_SHORTCUT
            THEN ANALYTICAL_SHORTCUT[scn.algorithm] ELSE One)
    /\ row.median_time_seconds =
           FDiv(FMul(Half, FDiv(ToFloat(Pow2(row.key_bits_effective)),
                                row.analytical_factor)),
                row.guesses_per_second)

(* C1: for every scenario whose algorithm, hardware, threat and attack type *)
(* are recognised, simulate_one returns a row whose effective bits are the  *)
(* override if there is one and the nominal bits otherwise, whose guess     *)
(* rate is the hardware rate times the threat multiplier, whose analytical  *)
(* factor is 1.0 for brute and the shortcut (1.0 if unlisted) for           *)
(* analytical, and whose median time is 0.5 * (2^bits / factor) / rate.     *)
C1_SimulateOneRow ==
    (op = "simulate_one" /\ ValidScenario(args)) =>
        (Returned(ret) /\ RowAsSpecified(args, ret.val))

\* an analytical scenario of an algorithm with a shortcut and an override
C1_Witness ==
    /\ op = "simulate_one"
    /\ args = Scenario("3DES-168", "GPU", "Low", "analytical")
    /\ Returned(ret)
    /\ ret.val.analytical_factor = OnePointFive
    /\ ret.val.guesses_per_second = Pow2(33)

(* C2: for every seconds value s >= 0, bucketize(s) is Weak exactly when    *)
(* s < 86400, Borderline exactly when 86400 <= s < 31557600 and Strong      *)
(* exactly when s >= 31557600, values of 1e30 and more included.            *)
C2_BucketBoundaries ==
    (op = "bucketize" /\ ~args.seconds.neg) =>
        /\ ret.val.name \in BucketNames
        /\ ret.val.name = "Weak" <=> Lt(args.seconds, Day)
        /\ ret.val.name = "Borderline" <=>
               (Le(Day, args.seconds) /\ Lt(args.seconds, Year))
        /\ ret.val.name = "Strong" <=> Le(Year, args.seconds)

\* a value no range holds, which gets the default
C2_Witness ==
    /\ op = "bucketize"
    /\ Le(DecimalUp(1, 30), args.seconds)
    /\ ret.val.name = "Strong"

(* C3: simulate_one fails, and returns no row, when the scenario's          *)
(* algorithm is not in the catalog or its hardware, threat or attack type   *)
(* is not a recognised value.                                               *)
C3_UnknownValuesFail ==
    (op = "simulate_one" /\ ~ValidScenario(args)) => ~Returned(ret)

(* C4: every generate_scenarios call with n >= 0 returns n scenarios, two   *)
(* calls with the same (n, seed) return the same list whatever was drawn    *)
(* from the generator in between, and the list depends on (n, seed) alone,  *)
(* not on the state the generator was in.                                   *)
C4_Deterministic ==
    op = "generate_scenarios" =>
        /\ Returned(ret)
        /\ args.n >= 0 => Len(ret.val) = args.n
        /\ \A g \in RngStates :
               ret.val = generate_scenarios(args.n, args.seed, g).out
        /\ memo.args = args => memo.ret = ret

\* a call repeated after others have drawn from the generator
C4_Witness ==
    /\ op = "generate_scenarios"
    /\ memo.args = args
    /\ memo.drawn > 0
    /\ Len(ret.val) >= 2

DesCluster == Scenario("DES-56", "CLUSTER", "High", "analytical")

\* the part of C5 that is about the inputs of the estimate
DesClusterInputs(row) ==
    /\ row.key_bits_effective = 56
    /\ row.guesses_per_second = FMul(ToFloat(Pow2(40)), Two)
    /\ row.analytical_factor = Two
    /\ row.median_time_seconds =
           FDiv(FMul(Half, ToFloat(Pow2(56))), FMul(ToFloat(Pow2(41)), Two))

(* C5, as the code has it: simulate_one on DES-56, CLUSTER, High,           *)
(* analytical gives effective bits 56, guess rate 2^40 * 2.0, factor 2.0    *)
(* and the time 0.5 * 2^56 / (2^41 * 2), which is 8192 seconds, rendered    *)
(* "2.28 h", in the bucket Weak.                                            *)
C5_DesClusterHours ==
    (op = "simulate_one" /\ args = DesCluster) =>
        /\ Returned(ret)
        /\ DesClusterInputs(ret.val)
        /\ ret.val.median_time_seconds = IntNum(8192)
        /\ ret.val.median_time_human = [hundredths |-> <<228>>, unit |-> "h"]
        /\ bucketize(ret.val.median_time_seconds) = "Weak"

C5_Witness ==
    /\ op = "simulate_one"
    /\ args = DesCluster
    /\ Returned(ret)
    /\ ret.val.median_time_human.unit = "h"

(* C5, as stated: the same call gives effective bits 56, guess rate         *)
(* 2^40 * 2.0, factor 2.0 and a time of 0.5 * 2^56 / (2^41 * 2) seconds     *)
(* that is below one second, in the bucket Weak.                            *)
C5_DesClusterSubSecond ==
    (op = "simulate_one" /\ args = DesCluster) =>
        /\ Returned(ret)
        /\ DesClusterInputs(ret.val)
        /\ Lt(ret.val.median_time_seconds, IntNum(1))
        /\ bucketize(ret.val.median_time_seconds) = "Weak"

\* predict is called on its rule-based branch with gps > 0 and af >= 1
FallbackCall ==
    /\ op = "predict"
    /\ (args.reg = "None" \/ args.cls = "None" \/ ~SKLEARN_OK)
    /\ Lt(Zero, args.gps)
    /\ Le(One, args.af)

(* C6: whenever predict is called without a regressor, without a           *)
(* classifier or without the learning backend, with gps > 0 and a factor    *)
(* >= 1, the risk label it returns is the bucket of                         *)
(* median_bruteforce_time_seconds on the same bits, gps and factor.         *)
C6_BucketAgreesWithMedian ==
    (/\ FallbackCall
     /\ Returned(median_bruteforce_time_seconds(args.key_bits_effective,
                                                args.gps, args.af))) =>
        /\ Returned(ret)
        /\ ret.val.risk =
               bucketize(median_bruteforce_time_seconds(
                             args.key_bits_effective, args.gps, args.af).val)

(* C7: an override, when an algorithm of the catalog has one, is at most    *)
(* the algorithm's nominal key_bits, so effective_bits(name, nominal) is at *)
(* most nominal for every catalog algorithm and every row simulate_one      *)
(* returns has key_bits_effective <= key_bits_nominal; 3DES-168 resolves to *)
(* 112, DES-56 to 56 and AES-256, which has no override, to 256.            *)
C7_EffectiveAtMostNominal ==
    /\ \A i \in 1..Len(ALGORITHMS) :
           /\ ALGORITHMS[i].name \in DOMAIN EFFECTIVE_OVERRIDES =>
                  EFFECTIVE_OVERRIDES[ALGORITHMS[i].name]["effective_bits"]
                      <= ALGORITHMS[i].key_bits
           /\ effective_bits(ALGORITHMS[i].name, ALGORITHMS[i].key_bits)
                  <= ALGORITHMS[i].key_bits
    /\ effective_bits("3DES-168", 168) = 112
    /\ effective_bits("DES-56", 56) = 56
    /\ effective_bits("AES-256", 256) = 256
    /\ (op = "simulate_one" /\ Returned(ret)) =>
           ret.val.key_bits_effective <= ret.val.key_bits_nominal

\* a row whose effective bits are below its nominal bits
C7_Witness ==
    /\ op = "simulate_one"
    /\ Returned(ret)
    /\ ret.val.key_bits_nominal = 168
    /\ ret.val.key_bits_effective = 112

\* the value median_bruteforce_time_seconds returns
Median(bits, gps, factor) ==
    median_bruteforce_time_seconds(bits, gps, factor).val

\* the median time simulate_one gives for scn at threat level t
TimeAt(scn, t) ==
    simulate_one([scn EXCEPT !.threat = t]).val.median_time_seconds

\* the threat multiplier grows along Low, Medium, High, and for recognised
\* values a higher threat level gives a strictly smaller time
ThreatShortens ==
    /\ \A i \in 1..(Len(THREAT_KEYS) - 1) :
           Lt(THREAT_LEVEL_MULTIPLIER[THREAT_KEYS[i]],
              THREAT_LEVEL_MULTIPLIER[THREAT_KEYS[i + 1]])
    /\ (op = "simulate_one" /\ ValidScenario(args)) =>
           \A t \in Range(THREAT_KEYS) :
               Lt(THREAT_LEVEL_MULTIPLIER[args.threat],
                  THREAT_LEVEL_MULTIPLIER[t]) =>
                   Lt(TimeAt(args, t), ret.val.median_time_seconds)

\* the numbers of S just above x: the least of those greater than x
NextAbove(S, x) ==
    {y \in S : Lt(x, y) /\ \A z \in S : Lt(x, z) => Le(y, z)}

\* the same for bit counts
NextBits(S, b) == {c \in S : b < c /\ \A d \in S : b < d => c <= d}

(* C8, as the code has it: for bits >= 0, gps >= 1 and factor >= 1,         *)
(* median_bruteforce_time_seconds raises OverflowError when bits >= 1024    *)
(* and otherwise returns a time that does not decrease when bits grow and   *)
(* does not increase when gps or factor grow (checked from each input to    *)
(* the next one above it); and for recognised values a   *)
(* higher threat level gives a strictly smaller time from simulate_one.     *)
C8_Monotone ==
    /\ ThreatShortens
    /\ op = "median_bruteforce_time_seconds" =>
           IF args.bits >= MaxTop THEN ret = Raise("OverflowError")
           ELSE /\ Returned(ret)
                /\ \A b \in NextBits(BitsInputs, args.bits) :
                       b < MaxTop =>
                           Le(ret.val, Median(b, args.gps, args.factor))
                /\ \A g \in NextAbove(GpsInputs, args.gps) :
                       Le(Median(args.bits, g, args.factor), ret.val)
                /\ \A f \in NextAbove(FactorInputs, args.factor) :
                       Le(Median(args.bits, args.gps, f), ret.val)

\* a larger factor that gives the very same time
C8_Witness ==
    /\ op = "median_bruteforce_time_seconds"
    /\ Returned(ret)
    /\ \E f \in NextAbove(FactorInputs, args.factor) :
           Median(args.bits, args.gps, f) = ret.val

(* C8, as stated: for bits >= 0, gps >= 1 and factor >= 1,                  *)
(* median_bruteforce_time_seconds returns a time that is strictly larger    *)
(* for more bits and strictly smaller for a larger gps or factor; and a     *)
(* higher threat level gives a strictly smaller time from simulate_one.     *)
C8_StrictlyMonotone ==
    /\ ThreatShortens
    /\ (op = "median_bruteforce_time_seconds" /\ Returned(ret)) =>
           /\ \A b \in NextBits(BitsInputs, args.bits) :
                  b < MaxTop => Lt(ret.val, Median(b, args.gps, args.factor))
           /\ \A g \in NextAbove(GpsInputs, args.gps) :
                  Lt(Median(args.bits, g, args.factor), ret.val)
           /\ \A f \in NextAbove(FactorInputs, args.factor) :
                  Lt(Median(args.bits, args.gps, f), ret.val)

\* x is y up to one part in 2^32
Close(x, y) ==
    /\ Le(FMul(y, Exact(FALSE, BSub(BShl(<<1>>, 32), <<1>>), -32)), x)
    /\ Le(x, FMul(y, Exact(FALSE, BAdd(BShl(<<1>>, 32), <<1>>), -32)))

\* the row simulate_one returns for the algorithm of a recommendation row
Simulated(row) ==
    simulate_one(Scenario(row.algorithm, args.max_compute, args.threat,
                          args.attack)).val

(* C9: for every catalog algorithm and every recognised hardware, threat    *)
(* and attack type, cmd_recommend estimates from the effective bits, the    *)
(* guess rate and the analytical factor simulate_one uses for the same      *)
(* scenario, so the row's time and bucket are the simulated row's.          *)
C9_RecommendMatchesSimulate ==
    (op = "cmd_recommend" /\ Returned(ret)) =>
        \A i \in 1..Len(ret.val.rows) :
            /\ ret.val.rows[i].effective_bits =
                   Simulated(ret.val.rows[i]).key_bits_effective
            /\ Close(ret.val.rows[i].estimated_time,
                     Simulated(ret.val.rows[i]).median_time_seconds)
            /\ ret.val.rows[i].risk =
                   bucketize(Simulated(ret.val.rows[i]).median_time_seconds)

\* the unit u of a rendering of s is the one for the size of s and goes with
\* the bucket of s
UnitAgrees(s, u) ==
    /\ u = "ms" <=> Lt(s, IntNum(1))
    /\ u = "s" <=> (Le(IntNum(1), s) /\ Lt(s, IntNum(60)))
    /\ u = "min" <=> (Le(IntNum(60), s) /\ Lt(s, IntNum(3600)))
    /\ u = "h" <=> (Le(IntNum(3600), s) /\ Lt(s, Day))
    /\ u = "days" <=> (Le(Day, s) /\ Lt(s, Year))
    /\ u = "years" <=> Le(Year, s)
    /\ u \in {"ms", "s", "min", "h"} <=> bucketize(s) = "Weak"
    /\ u = "days" <=> bucketize(s) = "Borderline"
    /\ u = "years" <=> bucketize(s) = "Strong"

(* C10: for every time s >= 0, and so for every row of simulate_one, the    *)
(* unit humanize_seconds picks (ms below 1, s below 60, min below 3600, h   *)
(* below 86400, days below 31557600, years from there on) is ms, s, min or  *)
(* h exactly when bucketize(s) is Weak, days exactly when it is Borderline  *)
(* and years exactly when it is Strong.                                     *)
C10_UnitMatchesBucket ==
    /\ op = "humanize_seconds" => UnitAgrees(args.s, ret.val.unit)
    /\ (op = "simulate_one" /\ Returned(ret)) =>
           UnitAgrees(ret.val.median_time_seconds,
                      ret.val.median_time_human.unit)

\* a second short of a Julian year: still days, still Borderline
C10_Witness ==
    /\ op = "humanize_seconds"
    /\ args.s = IntNum(31557599)
    /\ ret.val.unit = "days"

=============================================================================
